---- MODULE Spec2Model ----
(***************************************************************************)
(* The cafe list service (app/main.py, app/models.py): the Category Store, *)
(* the cafes table, the cafe_categories association table, and the         *)
(* requests create_cafe, update_cafe, delete_cafe, get_cafes and           *)
(* recommend_similar_cafes.  Each request runs in one session/transaction  *)
(* (get_db) and is taken await by await, MaxProc requests in flight at     *)
(* once: in Spec the sessions serve one request after another, in ConcSpec *)
(* one request each, on the stores of ConcStores.  SeedSpec is the seed    *)
(* script (app/scripts/seed_db.py), a process of its own, taken await by   *)
(* await with delete_cafe requests in flight.                              *)
(***************************************************************************)
EXTENDS Integers, Sequences, FiniteSets, TLC

(* ------------------------------ bounds -------------------------------- *)
\* Largest cafe id handed out in Spec: create_cafe is not taken beyond
\* it.
MaxId == 1
\* Similarity scores are 0..MaxScore; MaxScore stands for cosine 1.0.
MaxScore == 2
\* Largest corpus the recommender is run on.
MaxCorpus == 5
\* Number of requests in flight at once.
MaxProc == 2
\* Number of runs of the seed script.
MaxRuns == 2

(* --------------------------- input domains ---------------------------- *)
\* A city is a sequence of characters, so that the substring filter of
\* get_cafes is computed, not assumed.  NoUrl is image_url = None.
NoUrl == "<None>"
\* The (title, city, description, image_url) parts of the requests tried:
\* two that agree on (title, city) and differ in the rest, and a third with
\* the title and the description of the first in another city.
CafeFields ==
    {[title |-> "Aroma", city |-> <<"P">>, description |-> "cozy",
      image_url |-> NoUrl],
     [title |-> "Aroma", city |-> <<"P">>, description |-> "loud",
      image_url |-> "img"],
     [title |-> "Aroma", city |-> <<"p", "r">>, description |-> "cozy",
      image_url |-> NoUrl]}
\* The city filters tried by get_cafes (<<>> is None or ""): a letter in the
\* other case, and one made of the two wildcards of LIKE.
CityFilters == {<<>>, <<"R">>, <<"_", "%">>}
\* The category names of the requests: "wifi" and "quiet" are in the
\* Category Store, "ghost" is not.
Names == {"wifi", "quiet", "ghost"}
\* The also_good_for lists of the create_cafe and update_cafe requests
\* tried: none, one name, a name twice, two names.
AlsoLists ==
    {<<>>, <<"quiet">>, <<"quiet", "quiet">>, <<"quiet", "ghost">>}
\* get_cafes is also tried with a second name that is not in the store.
FilterNames == Names \cup {"void"}
\* The also_good_for lists of the get_cafes queries tried: none, a name of
\* the store, a name that is not in the store before one that is.
FilterLists == {<<>>, <<"wifi">>, <<"ghost", "wifi">>}

VARIABLES
    categories,   \* Category rows: [id, name]
    cafes,        \* Cafe rows: [id, title, city, description, image_url]
    assocs,       \* CafeCategory rows: [cafe_id, category_id, is_best]
    seed,         \* the seed script: its position and its session's state
    deleted,      \* history: ids of the cafes delete_cafe has removed
    sessions,     \* the requests in flight, each with its session's state
    writer        \* the session holding the write lock of the database, or 0

vars == <<categories, cafes, assocs, seed, deleted, sessions, writer>>

(* ------------------------------ helpers ------------------------------- *)
Range(s) == {s[i] : i \in 1..Len(s)}

Max(S) == CHOOSE x \in S : \A y \in S : y <= x

\* The request body of POST /cafes and PUT /cafes/{id}.
CafeCreate ==
    {[title |-> f.title, city |-> f.city, description |-> f.description,
      image_url |-> f.image_url, best_for |-> b, also_good_for |-> a] :
        f \in CafeFields, b \in Names, a \in AlsoLists}

\* The bodies of the create_cafe requests of Spec: one (title, city) with
\* one category, with two and other columns, with best_for also in
\* also_good_for and with a name that is not in the store, and the title in
\* another city with another best_for.
Bodies ==
    {c \in CafeCreate :
        \/ /\ c.city = <<"P">>
           /\ <<c.description, c.best_for, c.also_good_for>> \in
                  {<<"cozy", "wifi", <<>>>>, <<"loud", "wifi", <<"quiet">>>>,
                   <<"cozy", "quiet", <<"quiet">>>>, <<"cozy", "ghost", <<>>>>}
        \/ /\ c.city = <<"p", "r">>
           /\ <<c.best_for, c.also_good_for>> = <<"quiet", <<>>>>}

\* The bodies of the update_cafe requests of Spec.
UpdateBodies ==
    {c \in Bodies : <<c.description, c.best_for>> \in
                        {<<"cozy", "wifi">>, <<"loud", "wifi">>,
                         <<"cozy", "quiet">>}}

\* The queries of the get_cafes requests of Spec ("" is no best_for): no
\* filter, a city, best_for, also_good_for, and two names that are not in
\* the store together with one that is.
Queries ==
    {[city |-> q[1], best_for |-> q[2], also_good_for |-> q[3]] :
        q \in {x \in CityFilters \X (FilterNames \cup {""}) \X FilterLists :
                  \/ x[2] = "" /\ x[3] = <<>>
                  \/ /\ x[1] = <<>>
                     /\ <<x[2], x[3]>> \in
                            {<<"wifi", <<>>>>, <<"", <<"wifi">>>>,
                             <<"void", <<"ghost", "wifi">>>>}}}

(* ------------------------------ schema -------------------------------- *)
\* Mutant: the constraint is left out of __table_args__.
uq_cafe_title_city_dropped(cs) == TRUE

\* UniqueConstraint("title", "city") on cafes.
uq_cafe_title_city(cs) ==
    \A a \in cs : \A b \in cs :
        (a.title = b.title /\ a.city = b.city) => a = b

\* The id the database gives a new cafes row: an INTEGER PRIMARY KEY of
\* SQLite (config.py) is the rowid, one more than the largest in use.
NextCafeId(cs) == IF cs = {} THEN 1 ELSE Max({c.id : c \in cs}) + 1

\* select(Category).filter(Category.name.in_(names)), as {name: category}.
valid_categories(names) == {cat \in categories : cat.name \in names}

CategoryId(name) == (CHOOSE cat \in categories : cat.name = name).id

\* category_names of create_cafe and update_cafe.
RequestNames(cafe) ==
    {cafe.best_for} \cup
    (IF cafe.also_good_for # <<>> THEN Range(cafe.also_good_for) ELSE {})

\* The first name the validation loop of create_cafe / update_cafe reports
\* missing ("" when every name exists): best_for first, then also_good_for
\* in list order.
FirstMissing(cafe) ==
    LET known == {cat.name : cat \in valid_categories(RequestNames(cafe))}
        bad   == {i \in 1..Len(cafe.also_good_for) :
                     cafe.also_good_for[i] \notin known}
    IN  IF cafe.best_for \notin known THEN cafe.best_for
        ELSE IF bad # {} THEN cafe.also_good_for[CHOOSE i \in bad :
                                                 \A j \in bad : i <= j]
        ELSE ""

\* The association rows a request adds to the session, in the order of the
\* db.add calls: the best_for row, then one row per also_good_for name.
NewAssocRows(cafe_id, cafe) ==
    <<[cafe_id |-> cafe_id, category_id |-> CategoryId(cafe.best_for),
       is_best |-> TRUE]>> \o
    [i \in 1..Len(cafe.also_good_for) |->
        [cafe_id |-> cafe_id,
         category_id |-> CategoryId(cafe.also_good_for[i]),
         is_best |-> FALSE]]

\* delete(CafeCategory).filter_by(cafe_id=db_cafe.id)
DeleteAssocsOf(as, cafe_id) == {a \in as : a.cafe_id # cafe_id}

\* The flush of the pending association rows, in order: by
\* UniqueConstraint("cafe_id", "category_id") each INSERT fails with an
\* IntegrityError when a row with its (cafe_id, category_id) is there.
\* rows: the table as the flush leaves it, up to the failing INSERT.
RECURSIVE FlushAssocs(_, _)
FlushAssocs(as, rows) ==
    IF rows = <<>> THEN [ok |-> TRUE, rows |-> as]
    ELSE IF \E r \in as : /\ r.cafe_id = Head(rows).cafe_id
                          /\ r.category_id = Head(rows).category_id
         THEN [ok |-> FALSE, rows |-> as]
         ELSE FlushAssocs(as \cup {Head(rows)}, Tail(rows))

(* -------------------------- get_cafes helpers ------------------------- *)
\* lower() of one character, for ilike.
Lower(ch) ==
    CASE ch = "P" -> "p"
      [] ch = "R" -> "r"
      [] OTHER -> ch

LowerStr(s) == [i \in 1..Len(s) |-> Lower(s[i])]

\* s LIKE pat, both in lower case: "%" stands for any run of characters,
\* "_" for any one character; there is no escape character.
RECURSIVE LikeMatch(_, _)
LikeMatch(s, pat) ==
    IF pat = <<>> THEN s = <<>>
    ELSE IF Head(pat) = "%"
    THEN LikeMatch(s, Tail(pat)) \/ (s # <<>> /\ LikeMatch(Tail(s), pat))
    ELSE /\ s # <<>>
         /\ Head(pat) = "_" \/ Head(pat) = Head(s)
         /\ LikeMatch(Tail(s), Tail(pat))

\* Cafe.city.ilike(f"%{city}%"): lower(s) LIKE lower('%' + city + '%'), the
\* filter put into the pattern as it is.
ILikeContains(s, city) ==
    LikeMatch(LowerStr(s), LowerStr(<<"%">> \o city \o <<"%">>))

\* `CafeCategory.is_best is True`: Python's identity test of the mapped
\* column attribute against True, evaluated as the query is built.  The
\* attribute is not the object True, so the filter gets the constant False.
IsBestIsTrue(row) == FALSE

\* `CafeCategory.is_best is False`, likewise the constant False.
IsBestIsFalse(row) == FALSE

\* category_names of get_cafes: a None or empty best_for / also_good_for is
\* skipped by `if best_for:` / `if also_good_for:`.
QueryNames(best_for, also_good_for) ==
    (IF best_for # "" THEN {best_for} ELSE {}) \cup
    (IF also_good_for # <<>> THEN Range(also_good_for) ELSE {})

\* Mutant: when a name is missing, all the names supplied are listed.
MissingNamesSupplied(best_for, also_good_for) ==
    IF QueryNames(best_for, also_good_for) =
       {cat.name : cat \in valid_categories(QueryNames(best_for,
                                                       also_good_for))}
    THEN {}
    ELSE QueryNames(best_for, also_good_for)

\* missing = category_names - found_categories
MissingNames(best_for, also_good_for) ==
    QueryNames(best_for, also_good_for) \
    {cat.name : cat \in valid_categories(QueryNames(best_for, also_good_for))}

\* The rows of cafes JOIN cafe_categories JOIN categories.
JoinedRows ==
    {r \in [cafe : cafes, assoc : assocs, category : categories] :
        /\ r.assoc.cafe_id = r.cafe.id
        /\ r.assoc.category_id = r.category.id}

\* The ids of the cafes the query of get_cafes selects (query.distinct()).
SelectCafes(city, best_for, also_good_for) ==
    LET inCity(c) == city = <<>> \/ ILikeContains(c.city, city)
        keep(r) ==
            /\ best_for # "" =>
                   (r.category.name = best_for /\ IsBestIsTrue(r.assoc))
            /\ also_good_for # <<>> =>
                   (r.category.name \in Range(also_good_for)
                    /\ IsBestIsFalse(r.assoc))
    IN  IF best_for # "" \/ also_good_for # <<>>
        THEN {r.cafe.id : r \in {x \in JoinedRows : inCity(x.cafe) /\ keep(x)}}
        ELSE {c.id : c \in {x \in cafes : inCity(x)}}

(* ------------------------- recommender helpers ------------------------ *)
\* select(Cafe): the corpus, in rowid order.
RECURSIVE SortedIds(_)
SortedIds(ids) ==
    IF ids = {} THEN <<>>
    ELSE LET m == CHOOSE x \in ids : \A y \in ids : x <= y
         IN  <<m>> \o SortedIds(ids \ {m})

\* [c.id for c in cafes].index(cafe_id)
CafeIdx(ids, cafe_id) == CHOOSE i \in 1..Len(ids) : ids[i] = cafe_id

MissingGreenlet == "MissingGreenlet"
TypeError == "TypeError"

\* Whether the Cafe objects of a query have category_associations loaded:
\* not those of a plain select(Cafe) or of db.refresh (the relationship is
\* lazy), those of select(Cafe).options(selectinload(...)) have.
LoadedBySelect == FALSE
LoadedBySelectInLoad == TRUE

\* The text of a cafe, f"{description} {best_for} {' '.join(also_good_for)}",
\* on a cafe whose associations are loaded: the description and the
\* best_for category; also_good_for is a list of Category objects, which
\* join refuses with a TypeError when the list is not empty.  Two cafes
\* with the same text get the same TF-IDF vector.
Doc(id) ==
    LET c    == CHOOSE x \in cafes : x.id = id
        best == {a.category_id :
                    a \in {x \in assocs : x.cafe_id = id /\ x.is_best}}
        also == {a.category_id :
                    a \in {x \in assocs : x.cafe_id = id /\ ~x.is_best}}
    IN  IF also # {} THEN [error |-> TypeError, text |-> <<>>]
        ELSE [error |-> "", text |-> <<c.description, best>>]

\* The error building texts ends in, "" when it builds them: cafe.best_for
\* reads category_associations, and reading a relationship that is not
\* loaded is a lazy load, which under AsyncSession raises MissingGreenlet.
TextsError(ids, loaded) ==
    IF ~loaded THEN MissingGreenlet
    ELSE IF \E i \in 1..Len(ids) : Doc(ids[i]).error # "" THEN TypeError
    ELSE ""

\* The rows similarities[cafe_idx] can be, over the corpus ids: cosine
\* similarities in 0..MaxScore, the target's own and that of every cafe
\* with the target's document being MaxScore (cosine 1.0).
SimilarityRows(ids, cafe_idx) ==
    {sim \in [1..Len(ids) -> 0..MaxScore] :
        \A j \in 1..Len(ids) :
            Doc(ids[j]).text = Doc(ids[cafe_idx]).text => sim[j] = MaxScore}

\* np.argsort(row): the index orders that sort row ascending.  The default
\* kind, quicksort, is not stable: equal scores come in any order.
Argsort(row) ==
    {p \in Permutations(1..Len(row)) :
        \A i \in 1..(Len(row) - 1) : row[p[i]] <= row[p[i + 1]]}

\* s[::-1]
Reversed(s) == [i \in 1..Len(s) |-> s[Len(s) + 1 - i]]

\* s[1:4]: the second to the fourth element, as far as there are.
Slice1To4(s) ==
    IF Len(s) < 2 THEN <<>>
    ELSE SubSeq(s, 2, IF Len(s) < 4 THEN Len(s) ELSE 4)

\* similar_indices, for one outcome p of the argsort.
SimilarIndices(p) == Slice1To4(Reversed(p))

(* ----------------------------- responses ------------------------------ *)
NotFound == "Cafe not found"
NoCategory == "Category does not exist"
NoCategories == "Categories do not exist"
Conflict == "Cafe with this title and city already exists"
Deleted == "Cafe deleted"
ServerError == "Internal Server Error"

\* CafeResponse.from_orm(cafe): the validator reads
\* cafe.category_associations; when the relationship is not loaded the lazy
\* load raises MissingGreenlet, which no handler catches.
from_orm(loaded) ==
    IF loaded THEN [status |-> 200, detail |-> "", error |-> ""]
    ELSE [status |-> 500, detail |-> ServerError, error |-> MissingGreenlet]

\* op: the request; cafe_id: the id it names (create: the id created);
\* status and detail: the HTTP status and the HTTPException detail (or the
\* message of delete_cafe); error: the constraint of the IntegrityError the
\* handler caught, "" when none; names: the category names the detail
\* lists; body: the ids of the cafes of a recommendation, in order; found:
\* the ids of the cafes of get_cafes.
Response(op, id, status, detail, error, names, body, found) ==
    [op |-> op, cafe_id |-> id, status |-> status, detail |-> detail,
     error |-> error, names |-> names, body |-> body, found |-> found]

\* Mutant: the rows written before the error stay.
RollbackKeepsRows(before, written) == written

\* The rollback of a transaction: the tables are what they were before it,
\* whatever it had written.
Rollback(before, written) == before

\* The Cafe row of a request body, under the id given.
CafeRow(id, cafe) ==
    [id |-> id, title |-> cafe.title, city |-> cafe.city,
     description |-> cafe.description, image_url |-> cafe.image_url]

(* ---------------------- recommend_similar_cafes ----------------------- *)

\* select(Cafe): the ids of the corpus, in rowid order.
Corpus == SortedIds({c.id : c \in cafes})

\* recommend_similar_cafes of a corpus of two or more, for one outcome p
\* of the argsort: the ids of the cafes returned.
Ranked(p) ==
    [i \in 1..Len(SimilarIndices(p)) |-> Corpus[SimilarIndices(p)[i]]]

\* The rows similarities[cafe_idx] can be for the cafe.
RowsOf(cafe_id) == SimilarityRows(Corpus, CafeIdx(Corpus, cafe_id))

\* [c.id for c in cafes].index(cafe_id) of a cafe that is not in the list
ValueError == "ValueError"

\* The ways recommend_similar_cafes can end once the target is found, on
\* the corpus its second SELECT reads: the list it returns, or the error it
\* raises.
recommend_similar_cafes(cafe_id) ==
    IF Len(Corpus) <= 1
    THEN {[status |-> 200, detail |-> "", error |-> "", body |-> <<>>]}
    ELSE IF TextsError(Corpus, LoadedBySelect) # ""
    THEN {[status |-> 500, detail |-> ServerError,
           error |-> TextsError(Corpus, LoadedBySelect), body |-> <<>>]}
    ELSE IF cafe_id \notin Range(Corpus)
    THEN {[status |-> 500, detail |-> ServerError, error |-> ValueError,
           body |-> <<>>]}
    ELSE {[status |-> 200, detail |-> "", error |-> "", body |-> Ranked(p)] :
             p \in UNION {Argsort(sim) : sim \in RowsOf(cafe_id)}}


(* ----------------- requests, one session/transaction each ------------- *)
\* A handler is a coroutine: between two of its awaits nothing else runs,
\* at an await the other requests may.  Each action below is the code of a
\* handler from one await to the next.
Procs == 1..MaxProc

NoWork == [cafes |-> {}, assocs |-> {}]

NoResponse == Response("none", 0, 0, "", "", {}, <<>>, {})

\* A session: pc, the await the request is at; op, cafe_id and cafe, the
\* request (cafe is the body of create_cafe and update_cafe and the query
\* of get_cafes; cafe_id becomes the id of the row a create_cafe inserts);
\* db_cafe, the Cafe object of the session as loaded or inserted; work, the
\* tables as the open transaction has written them; error, the constraint
\* of the IntegrityError raised; committed, whether its COMMIT was done;
\* resp, the response; late (history), whether the cafe named had been
\* deleted when the request arrived; peers (history), the requests that
\* were in flight at some time while this one was.
Session(pc, op, cafe_id, cafe, late, peers) ==
    [pc |-> pc, op |-> op, cafe_id |-> cafe_id, cafe |-> cafe,
     db_cafe |-> {}, work |-> NoWork, error |-> "", committed |-> FALSE,
     resp |-> NoResponse, late |-> late, peers |-> peers]

Idle == Session("idle", "", 0, <<>>, FALSE, {})

\* The requests that have arrived and not ended.
InFlight == {q \in Procs : sessions[q].pc \notin {"idle", "done"}}

Locked == "database is locked"
StaleData == "StaleDataError"
InvalidRequest == "InvalidRequestError"

(* The seed script (app/scripts/seed_db.py) is a process of its own with one
   session; its steps are given further down. *)
\* The script, as holder of the write lock.
Script == MaxProc + 1

\* The three tables, as a transaction of the script has written them.
SeedWork(cats, cs, as) == [categories |-> cats, cafes |-> cs, assocs |-> as]

\* The changes of the session that wait for the next flush: cafe, the
\* existing cafe as loaded with the entry that changes its columns; flips,
\* the loaded CafeCategory rows with their new is_best; adds, the
\* CafeCategory rows added.
NoPending == [cafe |-> {}, flips |-> {}, adds |-> {}]

\* The state of the script: pc, the await it is at; runs, how often it was
\* started; categories_data and cafes_data, the data of the run, cafes_data
\* from the current entry on; names, the names of the Category rows added;
\* categories, the dictionary read after the commit of the categories;
\* existing_cafe, the cafe selected for the entry; work, the tables as the
\* open transaction has written them; resp, what the run printed last;
\* error, the exception it ended with.
SeedState(pc, runs, categories_data, cafes_data) ==
    [pc |-> pc, runs |-> runs, categories_data |-> categories_data,
     cafes_data |-> cafes_data, names |-> <<>>, categories |-> {},
     existing_cafe |-> {}, work |-> SeedWork({}, {}, {}),
     pending |-> NoPending, resp |-> "", error |-> ""]

\* The script is at a SELECT.
SeedReading ==
    seed.pc \in {"categories", "reload", "count", "cafe", "assocs"}

\* The response of a request that returns no cafe.
Reply(p, status, detail, error, names) ==
    Response(sessions[p].op, sessions[p].cafe_id, status, detail, error,
             names, <<>>, {})

\* The request of the session ends with the response given; the session is
\* closed.
Finish(p, r) ==
    sessions' = [sessions EXCEPT ![p] =
                    [@ EXCEPT !.pc = "done", !.cafe = <<>>, !.db_cafe = {},
                              !.work = NoWork, !.resp = r]]

\* The session moves to the await pc with the Cafe object and the written
\* tables given.
Goto(p, pc, db_cafe, work) ==
    sessions' = [sessions EXCEPT ![p] =
                    [@ EXCEPT !.pc = pc, !.db_cafe = db_cafe, !.work = work]]

\* The flush raises the IntegrityError of the constraint given, having
\* written the tables given.  A flush that fails rolls the transaction back
\* before it raises: the tables are what they were, the write lock is free,
\* and the handler is in its except clause, before the await of
\* db.rollback().
Raise(p, constraint, db_cafe, written) ==
    /\ cafes' = Rollback([cafes |-> cafes, assocs |-> assocs], written).cafes
    /\ assocs' = Rollback([cafes |-> cafes, assocs |-> assocs], written).assocs
    /\ writer' = 0
    /\ sessions' = [sessions EXCEPT ![p] =
                       [@ EXCEPT !.pc = "rollback", !.db_cafe = db_cafe,
                                 !.work = NoWork, !.error = constraint]]

\* The first await of a handler.
FirstAwait(op, cafe) ==
    IF op = "create" THEN "lookup"
    ELSE IF op \in {"update", "delete"} THEN "select"
    ELSE IF op = "recommend" THEN "target"
    ELSE IF QueryNames(cafe.best_for, cafe.also_good_for) # {} THEN "lookup"
    ELSE "query"

\* A request arrives at a session that has served none (the slots are
\* taken in order).
Begin(p, op, cafe_id, cafe) ==
    /\ sessions[p].pc = "idle"
    /\ IF p = 1 THEN TRUE ELSE sessions[p - 1].pc # "idle"
    /\ sessions' =
           [q \in Procs |->
               IF q = p
               THEN Session(FirstAwait(op, cafe), op, cafe_id, cafe,
                            cafe_id \in deleted, InFlight)
               ELSE IF q \in InFlight
               THEN [sessions[q] EXCEPT !.peers = @ \cup {p}]
               ELSE sessions[q]]
    /\ UNCHANGED <<categories, cafes, assocs, seed, deleted, writer>>

\* A request arrives after one that has ended (peers is kept for the first
\* requests only).
Again(p, op, cafe_id, cafe) ==
    /\ sessions[p].pc = "done"
    /\ sessions' = [sessions EXCEPT ![p] =
                       Session(FirstAwait(op, cafe), op, cafe_id, cafe,
                               cafe_id \in deleted, {})]
    /\ UNCHANGED <<categories, cafes, assocs, seed, deleted, writer>>

\* update_cafe, delete_cafe: select(Cafe).filter_by(id=cafe_id)
SelectCafe(p) ==
    /\ sessions[p].pc = "select"
    /\ LET found == {c \in cafes : c.id = sessions[p].cafe_id}
       IN  IF found = {}
           THEN Finish(p, Reply(p, 404, NotFound, "", {}))
           ELSE Goto(p, IF sessions[p].op = "update" THEN "lookup"
                        ELSE "write", found, NoWork)
    /\ UNCHANGED <<categories, cafes, assocs, seed, deleted, writer>>

\* create_cafe, update_cafe: the category lookup and the validation of the
\* names.
LookupCategories(p) ==
    /\ sessions[p].pc = "lookup"
    /\ sessions[p].op \in {"create", "update"}
    /\ IF FirstMissing(sessions[p].cafe) # ""
       THEN Finish(p, Reply(p, 400, NoCategory, "",
                            {FirstMissing(sessions[p].cafe)}))
       ELSE Goto(p, "write", sessions[p].db_cafe, NoWork)
    /\ UNCHANGED <<categories, cafes, assocs, seed, deleted, writer>>

\* Mutant: the database has no write lock.
CanWriteUnlocked(p) == TRUE

\* The session can take the write lock.
CanWrite(p) == writer \in {0, p}

\* The UPDATE the flush emits for db_cafe: it sets the columns whose value
\* differs from the one loaded, in the row as it is in the database.
UpdateRow(row, loaded, cafe) ==
    [id |-> row.id,
     title |-> IF cafe.title # loaded.title THEN cafe.title ELSE row.title,
     city |-> IF cafe.city # loaded.city THEN cafe.city ELSE row.city,
     description |-> IF cafe.description # loaded.description
                     THEN cafe.description ELSE row.description,
     image_url |-> IF cafe.image_url # loaded.image_url
                   THEN cafe.image_url ELSE row.image_url]

\* The first write of the request.
\* create_cafe: db.flush(), the INSERT of the cafe row.
\* update_cafe: the UPDATE of the cafe row and the DELETE of its association
\* rows, at db.execute(delete(...)).  An UPDATE that finds no row (the cafe
\* was deleted since it was loaded) raises StaleDataError, which the handler
\* does not catch; no UPDATE is emitted when no column differs.
\* delete_cafe: the DELETE of the association rows.
\* A statement that breaks a constraint ends the transaction (Raise); the
\* others leave it open, holding the write lock.
WriteCafe(p) ==
    /\ sessions[p].pc = "write"
    /\ CanWrite(p)
    /\ IF sessions[p].op = "create"
       THEN LET db_cafe == CafeRow(NextCafeId(cafes), sessions[p].cafe)
                written == cafes \cup {db_cafe}
            IN  IF ~uq_cafe_title_city(written)
                THEN Raise(p, "uq_cafe_title_city", {},
                           [cafes |-> written, assocs |-> assocs])
                ELSE /\ writer' = p
                     /\ Goto(p, "assocs", {db_cafe},
                             [cafes |-> written, assocs |-> assocs])
                     /\ UNCHANGED <<cafes, assocs>>
       ELSE IF sessions[p].op = "update"
       THEN LET loaded  == CHOOSE c \in sessions[p].db_cafe : TRUE
                current == {c \in cafes : c.id = loaded.id}
                updated == (cafes \ current) \cup
                           {UpdateRow(c, loaded, sessions[p].cafe) :
                               c \in current}
            IN  IF current = {} /\ CafeRow(loaded.id, sessions[p].cafe) # loaded
                THEN /\ Finish(p, Reply(p, 500, ServerError, StaleData, {}))
                     /\ UNCHANGED <<cafes, assocs, writer>>
                ELSE IF ~uq_cafe_title_city(updated)
                THEN Raise(p, "uq_cafe_title_city", sessions[p].db_cafe,
                           [cafes |-> updated, assocs |-> assocs])
                ELSE /\ writer' = p
                     /\ Goto(p, "assocs", sessions[p].db_cafe,
                             [cafes |-> updated,
                              assocs |-> DeleteAssocsOf(assocs, loaded.id)])
                     /\ UNCHANGED <<cafes, assocs>>
       ELSE /\ writer' = p
            /\ Goto(p, "cascade", sessions[p].db_cafe,
                    [cafes |-> cafes,
                     assocs |-> DeleteAssocsOf(assocs, sessions[p].cafe_id)])
            /\ UNCHANGED <<cafes, assocs>>
    /\ UNCHANGED <<categories, seed, deleted>>

\* The session is at a SELECT.
Reading(q) ==
    sessions[q].pc \in {"select", "lookup", "refresh", "query", "target",
                        "corpus"}

\* The busy timeout runs out and the OperationalError, which the handler
\* does not catch, closes the session, rolling back what it wrote: at the
\* first write when the write lock is another session's, at the COMMIT when
\* another session, or the seed script, is reading.
Busy(p) ==
    /\ \/ sessions[p].pc = "write" /\ ~CanWrite(p)
       \/ /\ sessions[p].pc = "commit"
          /\ (\E q \in Procs \ {p} : Reading(q)) \/ SeedReading
    /\ writer' = IF writer = p THEN 0 ELSE writer
    /\ Finish(p, Reply(p, 500, ServerError, Locked, {}))
    /\ UNCHANGED <<categories, cafes, assocs, seed, deleted>>

\* create_cafe, update_cafe: db.commit(), first part, the flush of the
\* CafeCategory rows added.
FlushAssocRows(p) ==
    /\ sessions[p].pc = "assocs"
    /\ LET db_cafe == CHOOSE c \in sessions[p].db_cafe : TRUE
           flushed == FlushAssocs(sessions[p].work.assocs,
                                  NewAssocRows(db_cafe.id, sessions[p].cafe))
       IN  IF flushed.ok
           THEN /\ Goto(p, "commit", sessions[p].db_cafe,
                        [cafes |-> sessions[p].work.cafes,
                         assocs |-> flushed.rows])
                /\ UNCHANGED <<cafes, assocs, writer>>
           ELSE Raise(p, "uq_cafe_category", sessions[p].db_cafe,
                      [cafes |-> sessions[p].work.cafes,
                       assocs |-> flushed.rows])
    /\ UNCHANGED <<categories, seed, deleted>>

\* delete_cafe: db.delete(db_cafe).  The DELETE of the cafe row goes out with
\* the flush of db.commit(); when it finds no row SQLAlchemy only warns.
DeleteRow(p) ==
    /\ sessions[p].pc = "cascade"
    /\ Goto(p, "commit", sessions[p].db_cafe,
            [cafes |-> {c \in sessions[p].work.cafes :
                           c.id # sessions[p].cafe_id},
             assocs |-> sessions[p].work.assocs])
    /\ UNCHANGED <<categories, cafes, assocs, seed, deleted, writer>>

\* db.commit(): the COMMIT.  delete_cafe then returns its message.
Commit(p) ==
    /\ sessions[p].pc = "commit"
    /\ cafes' = sessions[p].work.cafes
    /\ assocs' = sessions[p].work.assocs
    /\ writer' = 0
    /\ deleted' = IF sessions[p].op = "delete"
                  THEN deleted \cup {sessions[p].cafe_id} ELSE deleted
    /\ sessions' =
           [sessions EXCEPT ![p] =
               IF sessions[p].op = "delete"
               THEN [@ EXCEPT !.pc = "done", !.db_cafe = {}, !.work = NoWork,
                              !.committed = TRUE,
                              !.resp = Reply(p, 200, Deleted, "", {})]
               ELSE [@ EXCEPT !.pc = "refresh", !.cafe = <<>>,
                              !.work = NoWork, !.committed = TRUE,
                              !.cafe_id =
                                  (CHOOSE c \in sessions[p].db_cafe : TRUE).id]]
    /\ UNCHANGED <<categories, seed>>

\* create_cafe, update_cafe: db.refresh(db_cafe), which raises
\* InvalidRequestError when the row is gone, and CafeResponse.from_orm.
Refresh(p) ==
    /\ sessions[p].pc = "refresh"
    /\ IF {c \in cafes : c.id = sessions[p].cafe_id} = {}
       THEN Finish(p, Reply(p, 500, ServerError, InvalidRequest, {}))
       ELSE Finish(p, Reply(p, from_orm(LoadedBySelect).status,
                            from_orm(LoadedBySelect).detail,
                            from_orm(LoadedBySelect).error, {}))
    /\ UNCHANGED <<categories, cafes, assocs, seed, deleted, writer>>

\* except IntegrityError: db.rollback(), which finds the transaction rolled
\* back by the flush that failed, and the HTTPException.
RollbackTx(p) ==
    /\ sessions[p].pc = "rollback"
    /\ Finish(p, Reply(p, 400, Conflict, sessions[p].error, {}))
    /\ UNCHANGED <<categories, cafes, assocs, seed, deleted, writer>>

\* get_cafes: the lookup of the category names, when any is given.
LookupNames(p) ==
    /\ sessions[p].pc = "lookup"
    /\ sessions[p].op = "get"
    /\ LET missing == MissingNames(sessions[p].cafe.best_for,
                                   sessions[p].cafe.also_good_for)
       IN  IF missing # {}
           THEN Finish(p, Reply(p, 400, NoCategories, "", missing))
           ELSE Goto(p, "query", {}, NoWork)
    /\ UNCHANGED <<categories, cafes, assocs, seed, deleted, writer>>

\* get_cafes: db.execute(query), and CafeResponse.from_orm of each cafe.
GetQuery(p) ==
    /\ sessions[p].pc = "query"
    /\ Finish(p, Response("get", 0, from_orm(LoadedBySelectInLoad).status,
                          from_orm(LoadedBySelectInLoad).detail,
                          from_orm(LoadedBySelectInLoad).error, {}, <<>>,
                          SelectCafes(sessions[p].cafe.city,
                                      sessions[p].cafe.best_for,
                                      sessions[p].cafe.also_good_for)))
    /\ UNCHANGED <<categories, cafes, assocs, seed, deleted, writer>>

\* recommend_similar_cafes: select(Cafe).filter_by(id=cafe_id)
RecTarget(p) ==
    /\ sessions[p].pc = "target"
    /\ LET found == {c \in cafes : c.id = sessions[p].cafe_id}
       IN  IF found = {}
           THEN Finish(p, Reply(p, 404, NotFound, "", {}))
           ELSE Goto(p, "corpus", found, NoWork)
    /\ UNCHANGED <<categories, cafes, assocs, seed, deleted, writer>>

\* recommend_similar_cafes: select(Cafe), and the ranking of the corpus.
RecCorpus(p) ==
    /\ sessions[p].pc = "corpus"
    /\ \E r \in recommend_similar_cafes(sessions[p].cafe_id) :
           Finish(p, Response("recommend", sessions[p].cafe_id, r.status,
                              r.detail, r.error, {}, r.body, {}))
    /\ UNCHANGED <<categories, cafes, assocs, seed, deleted, writer>>

\* The steps of the write requests.
WriteStep(p) ==
    \/ SelectCafe(p)
    \/ LookupCategories(p)
    \/ WriteCafe(p)
    \/ Busy(p)
    \/ FlushAssocRows(p)
    \/ DeleteRow(p)
    \/ Commit(p)
    \/ Refresh(p)
    \/ RollbackTx(p)

\* The steps of the read requests.
ReadStep(p) ==
    \/ LookupNames(p)
    \/ GetQuery(p)
    \/ RecTarget(p)
    \/ RecCorpus(p)

(* ------------------------------- state -------------------------------- *)
\* The service with the Category Store seeded and no cafe.
Init ==
    /\ categories = {[id |-> 1, name |-> "wifi"],
                     [id |-> 2, name |-> "quiet"]}
    /\ cafes = {}
    /\ assocs = {}
    /\ seed = SeedState("idle", 0, <<>>, <<>>)
    /\ deleted = {}
    /\ sessions = [p \in Procs |-> Idle]
    /\ writer = 0

\* create_cafe is taken while the ids to hand out stay within MaxId, or
\* when the store holds the (title, city) of the body.
CanCreate(cafe) ==
    \/ \E c \in cafes : c.title = cafe.title /\ c.city = cafe.city
    \/ NextCafeId(cafes) +
       Cardinality({q \in InFlight : /\ sessions[q].op = "create"
                                     /\ ~sessions[q].committed}) <= MaxId

\* A request arrives at the session p.
Request(p, op, cafe_id, cafe) ==
    \/ Begin(p, op, cafe_id, cafe)
    \/ Again(p, op, cafe_id, cafe)

Next ==
    \E p \in Procs :
        \/ \E cafe \in Bodies : CanCreate(cafe) /\ Request(p, "create", 0, cafe)
        \/ \E cafe_id \in 1..MaxId : \E cafe \in UpdateBodies :
               Request(p, "update", cafe_id, cafe)
        \/ \E cafe_id \in 1..MaxId : Request(p, "delete", cafe_id, <<>>)
        \/ \E query \in Queries : Request(p, "get", 0, query)
        \/ \E cafe_id \in 1..MaxId : Request(p, "recommend", cafe_id, <<>>)
        \/ WriteStep(p)
        \/ ReadStep(p)

Spec == Init /\ [][Next]_vars

(* ------------------- the recommender on larger corpora ---------------- *)
\* The store after n successful create_cafe requests with n titles, best_for
\* "wifi" or "quiet" and no also_good_for: cafes 1 and 2 have the same
\* document, the others differ in description or category.
SeededCafe(i) ==
    [id |-> i, title |-> "Cafe" \o ToString(i), city |-> <<"P">>,
     description |-> IF i % 2 = 0 \/ i = 1 THEN "cozy" ELSE "loud",
     image_url |-> NoUrl]

SeededAssoc(i) ==
    [cafe_id |-> i, category_id |-> IF i <= 3 THEN 1 ELSE 2, is_best |-> TRUE]

RecInit ==
    \E n \in 1..MaxCorpus :
        /\ categories = {[id |-> 1, name |-> "wifi"],
                         [id |-> 2, name |-> "quiet"]}
        /\ cafes = {SeededCafe(i) : i \in 1..n}
        /\ assocs = {SeededAssoc(i) : i \in 1..n}
        /\ seed = SeedState("idle", 0, <<>>, <<>>)
        /\ deleted = {}
        /\ sessions = [p \in Procs |-> Idle]
        /\ writer = 0

\* One recommendation or delete_cafe request per session, await by await.
RecNext ==
    \E p \in Procs :
        \/ \E cafe_id \in 1..(MaxCorpus + 1) :
               Begin(p, "recommend", cafe_id, <<>>)
        \/ \E cafe_id \in 1..MaxCorpus : Begin(p, "delete", cafe_id, <<>>)
        \/ RecTarget(p)
        \/ RecCorpus(p)
        \/ SelectCafe(p)
        \/ WriteCafe(p)
        \/ Busy(p)
        \/ DeleteRow(p)
        \/ Commit(p)

RecSpec == RecInit /\ [][RecNext]_vars


(* ----------------------- scripts/seed_db.py ---------------------------- *)
\* seed_database works on the tables it is given: cats, cs and as are the
\* categories, cafes and cafe_categories tables as its session sees them.

\* categories_data of app/data/data.py, as tried: one name, two names, a
\* name twice.
CategoriesData == {<<"wifi">>, <<"wifi", "quiet">>, <<"wifi", "wifi">>}

\* cafes_data of app/data/data.py, as tried: no entry, every single entry,
\* and the pairs of the entries with best_for "wifi" and at most "quiet"
\* in also_good_for.  The titles, cities and urls tried are within the
\* column lengths, so the length checks skip none of them.
CafesData ==
    {<<>>} \cup {<<e>> : e \in CafeCreate} \cup
    {<<e, f>> : e, f \in {x \in CafeCreate :
                             /\ x.best_for = "wifi"
                             /\ x.also_good_for \in {<<>>, <<"quiet">>}}}

\* The id the database gives a new categories row (the rowid).
NextCategoryId(cats) == IF cats = {} THEN 1 ELSE Max({c.id : c \in cats}) + 1

\* The names of categories_data that are not in existing_categories, in
\* order: one Category is added to the session for each.
PendingCategories(cats, categories_data) ==
    SelectSeq(categories_data, LAMBDA n : \A c \in cats : c.name # n)

\* The commit of the pending Category rows, in order: by unique=True on
\* Category.name an INSERT fails with an IntegrityError when the name is
\* there.
RECURSIVE InsertCategories(_, _)
InsertCategories(cats, names) ==
    IF names = <<>> THEN [ok |-> TRUE, rows |-> cats]
    ELSE IF \E c \in cats : c.name = Head(names)
         THEN [ok |-> FALSE, rows |-> cats]
         ELSE InsertCategories(
                  cats \cup {[id |-> NextCategoryId(cats),
                              name |-> Head(names)]},
                  Tail(names))

\* categories[cat_name]
SeedCategoryId(cats, name) == (CHOOSE cat \in cats : cat.name = name).id

\* The checks that let an entry through: best_for is a category, every
\* name of also_good_for is one, best_for is not in also_good_for.
SeedValid(cats, cafe_data) ==
    /\ \E c \in cats : c.name = cafe_data.best_for
    /\ \A n \in Range(cafe_data.also_good_for) : \E c \in cats : c.name = n
    /\ cafe_data.best_for \notin Range(cafe_data.also_good_for)

\* unique_categories = {best_for} | set(also_good_for)
unique_categories(cafe_data) ==
    {cafe_data.best_for} \cup Range(cafe_data.also_good_for)

desired_category_ids(cats, cafe_data) ==
    {SeedCategoryId(cats, n) : n \in unique_categories(cafe_data)}

\* The diff-and-patch of the association rows of an existing cafe: the rows
\* of a desired category get is_best set, a row is added for each desired
\* category without one.  The rows of the other categories stay as they
\* are: session.delete(...) is called without await, so the coroutine never
\* runs and no DELETE is emitted.
PatchAssocs(as, cafe_id, desired, best_for_id) ==
    LET existing_assocs   == {a \in as : a.cafe_id = cafe_id}
        current_assoc_ids == {a.category_id : a \in existing_assocs}
        flipped == {IF a.category_id \in desired
                    THEN [a EXCEPT !.is_best = (a.category_id = best_for_id)]
                    ELSE a : a \in existing_assocs}
        added   == {[cafe_id |-> cafe_id, category_id |-> cat_id,
                     is_best |-> (cat_id = best_for_id)] :
                        cat_id \in desired \ current_assoc_ids}
    IN  ((as \ existing_assocs) \cup flipped) \cup added

\* The rows in some order.  The script adds the rows of a cafe in the
\* iteration order of a set; they go out in one flush, which fails as a
\* whole when one of them breaks the constraint, whatever the order.
RECURSIVE SeqOf(_)
SeqOf(S) ==
    IF S = {} THEN <<>>
    ELSE LET x == CHOOSE y \in S : TRUE
         IN  <<x>> \o SeqOf(S \ {x})

\* The CafeCategory rows added for a new cafe, one per name of
\* unique_categories.
NewCafeAssocs(cats, cafe_id, cafe_data) ==
    {[cafe_id |-> cafe_id, category_id |-> SeedCategoryId(cats, n),
      is_best |-> (n = cafe_data.best_for)] :
         n \in unique_categories(cafe_data)}

\* One pass of the loop over cafes_data, the script running alone.  ok: no
\* flush raised an IntegrityError.  An existing cafe is patched; a new cafe
\* gets the next id, and the INSERT of its association rows breaks
\* uq_cafe_category when rows of that id are in the table (the rows of a
\* cafe that is gone: the foreign key is not enforced).
seed_cafe(cats, cs, as, cafe_data) ==
    LET existing == {c \in cs : /\ c.title = cafe_data.title
                                /\ c.city = cafe_data.city}
        existing_cafe == CHOOSE c \in existing : TRUE
        id == NextCafeId(cs)
        flushed == FlushAssocs(as, SeqOf(NewCafeAssocs(cats, id, cafe_data)))
    IN  IF ~SeedValid(cats, cafe_data)
        THEN [ok |-> TRUE, cafes |-> cs, assocs |-> as]
        ELSE IF existing # {}
        THEN [ok |-> TRUE,
              cafes |->
                  (cs \ {existing_cafe}) \cup
                  {[existing_cafe EXCEPT
                       !.description = cafe_data.description,
                       !.image_url = cafe_data.image_url]},
              assocs |->
                  PatchAssocs(as, existing_cafe.id,
                              desired_category_ids(cats, cafe_data),
                              SeedCategoryId(cats, cafe_data.best_for))]
        ELSE IF flushed.ok
        THEN [ok |-> TRUE, cafes |-> cs \cup {CafeRow(id, cafe_data)},
              assocs |-> flushed.rows]
        ELSE [ok |-> FALSE, cafes |-> cs, assocs |-> as]

\* for cafe_data in cafes_data: the loop ends at the first IntegrityError.
RECURSIVE SeedCafes(_, _, _, _)
SeedCafes(cats, cs, as, cafes_data) ==
    IF cafes_data = <<>> THEN [ok |-> TRUE, cafes |-> cs, assocs |-> as]
    ELSE LET r == seed_cafe(cats, cs, as, Head(cafes_data))
         IN  IF r.ok THEN SeedCafes(cats, r.cafes, r.assocs, Tail(cafes_data))
             ELSE r

Seeded == "Database seeded successfully!"
SeedConflict == "Error: Database conflict occurred"
Traceback == "Traceback (most recent call last)"

\* seed_database, the script running alone: the categories are committed
\* first, then the cafes and their association rows in one transaction.  An
\* IntegrityError of either ends the script in its except clause, with the
\* transaction that raised it rolled back.
seed_database(cats, cs, as, categories_data, cafes_data) ==
    LET ins == InsertCategories(cats,
                                PendingCategories(cats, categories_data))
        r   == SeedCafes(ins.rows, cs, as, cafes_data)
    IN  IF ~ins.ok
        THEN [categories |-> Rollback(cats, ins.rows), cafes |-> cs,
              assocs |-> as, resp |-> SeedConflict,
              error |-> "uq_category_name"]
        ELSE IF ~r.ok
        THEN [categories |-> ins.rows, cafes |-> Rollback(cs, r.cafes),
              assocs |-> Rollback(as, r.assocs), resp |-> SeedConflict,
              error |-> "uq_cafe_category"]
        ELSE [categories |-> ins.rows, cafes |-> r.cafes,
              assocs |-> r.assocs, resp |-> Seeded, error |-> ""]

(* ---------------- the script, one await after the other --------------- *)
\* The script is a process of its own with one session.  Its SELECTs read
\* the tables as committed until its first INSERT or UPDATE, which opens
\* its transaction and takes the write lock; from then on they read what the
\* transaction has written.  The changes made to the objects of the session
\* go out with the next flush: the autoflush of a session.execute, or
\* session.flush / session.commit.

\* The run is over.
SeedDone(message, error) ==
    [SeedState("done", seed.runs, <<>>, <<>>) EXCEPT !.resp = message,
                                                     !.error = error]

\* The tables as the session of the script sees them.
SeedView ==
    IF writer = Script THEN seed.work
    ELSE SeedWork(categories, cafes, assocs)

\* The entries from the first one on that the checks of the loop let
\* through.
RECURSIVE SkipInvalid(_, _)
SkipInvalid(cats, cafes_data) ==
    IF cafes_data = <<>> \/ SeedValid(cats, Head(cafes_data)) THEN cafes_data
    ELSE SkipInvalid(cats, Tail(cafes_data))

\* The await the loop goes to with the entries left: the SELECT of the
\* cafe of the next entry, or the flush after the loop.
EntryPc(cafes_data) == IF cafes_data = <<>> THEN "flush" ELSE "cafe"

\* The flush of the pending changes on the tables given: the UPDATE of the
\* cafe, the UPDATEs of the rows whose is_best was set, the INSERTs of the
\* rows added.  An UPDATE that finds no row raises StaleDataError, an INSERT
\* of a (cafe_id, category_id) that is there an IntegrityError.
SeedFlush(view, pending) ==
    LET SameKey(a, b) == /\ a.cafe_id = b.cafe_id
                         /\ a.category_id = b.category_id
        stale   == \/ \E u \in pending.cafe :
                          \A c \in view.cafes : c.id # u.loaded.id
                   \/ \E f \in pending.flips :
                          \A a \in view.assocs : ~SameKey(a, f)
        updated == {IF \E u \in pending.cafe : u.loaded.id = c.id
                    THEN LET u == CHOOSE v \in pending.cafe : TRUE
                         IN  UpdateRow(c, u.loaded, u.data)
                    ELSE c : c \in view.cafes}
        flipped == {IF \E f \in pending.flips : SameKey(a, f)
                    THEN CHOOSE f \in pending.flips : SameKey(a, f)
                    ELSE a : a \in view.assocs}
        flushed == FlushAssocs(flipped, SeqOf(pending.adds))
    IN  IF stale THEN [error |-> StaleData, tables |-> view]
        ELSE IF ~flushed.ok
        THEN [error |-> "uq_cafe_category", tables |-> view]
        ELSE [error |-> "",
              tables |-> SeedWork(view.categories, updated, flushed.rows)]

\* A flush raises the error given.  The transaction is rolled back and the
\* write lock free; an IntegrityError takes the script to its except
\* clause, any other exception ends it.
SeedRaise(error) ==
    /\ writer' = 0
    /\ seed' = IF error = StaleData THEN SeedDone(Traceback, error)
               ELSE [SeedState("rollback", seed.runs, <<>>, <<>>)
                        EXCEPT !.error = error]

\* The script goes on to the await pc with the entries, the cafe and the
\* pending changes given, after a flush that left the tables given (the
\* tables as committed when there was nothing to flush and no transaction
\* is open).
SeedGoto(pc, cafes_data, existing_cafe, pending, flushed, tables) ==
    /\ writer' = IF flushed THEN Script ELSE writer
    /\ seed' = [seed EXCEPT !.pc = pc, !.cafes_data = cafes_data,
                            !.existing_cafe = existing_cafe,
                            !.pending = pending,
                            !.work = IF flushed \/ writer = Script
                                     THEN tables ELSE SeedWork({}, {}, {})]

\* python -m app.scripts.seed_db: create_tables finds the tables, or makes
\* them, and seed_database opens its session.
SeedBegin(categories_data, cafes_data) ==
    /\ seed.pc \in {"idle", "done"}
    /\ seed.runs < MaxRuns
    /\ seed' = SeedState("categories", seed.runs + 1, categories_data,
                         cafes_data)
    /\ UNCHANGED <<categories, cafes, assocs, deleted, sessions, writer>>

\* select(Category), and a Category added for each name of categories_data
\* that is not in existing_categories.
SeedCategories ==
    /\ seed.pc = "categories"
    /\ seed' = [seed EXCEPT !.pc = "insert",
                            !.names = PendingCategories(categories,
                                                        seed.categories_data)]
    /\ UNCHANGED <<categories, cafes, assocs, deleted, sessions, writer>>

\* session.commit() of the categories, first part: the flush of the
\* Category rows added.
SeedInsertCategories ==
    /\ seed.pc = "insert"
    /\ seed.names = <<>> \/ CanWrite(Script)
    /\ LET ins == InsertCategories(categories, seed.names)
       IN  IF seed.names = <<>>
           THEN /\ seed' = [seed EXCEPT !.pc = "commit_categories"]
                /\ writer' = writer
           ELSE IF ~ins.ok THEN SeedRaise("uq_category_name")
           ELSE /\ seed' = [seed EXCEPT !.pc = "commit_categories",
                                        !.work = SeedWork(ins.rows, cafes,
                                                          assocs)]
                /\ writer' = Script
    /\ UNCHANGED <<categories, cafes, assocs, deleted, sessions>>

\* The COMMIT of session.commit(), of the categories and of the cafes; the
\* second one is followed by the message.
SeedCommit ==
    /\ seed.pc \in {"commit_categories", "commit"}
    /\ categories' = SeedView.categories
    /\ cafes' = SeedView.cafes
    /\ assocs' = SeedView.assocs
    /\ writer' = IF writer = Script THEN 0 ELSE writer
    /\ seed' = IF seed.pc = "commit"
               THEN SeedDone(Seeded, "")
               ELSE [seed EXCEPT !.pc = "reload", !.names = <<>>,
                                 !.work = SeedWork({}, {}, {})]
    /\ UNCHANGED <<deleted, sessions>>

\* select(Category): the dictionary categories.
SeedReload ==
    /\ seed.pc = "reload"
    /\ seed' = [seed EXCEPT !.pc = "count", !.categories = categories]
    /\ UNCHANGED <<categories, cafes, assocs, deleted, sessions, writer>>

\* select(func.count()) of the association rows, and the loop up to its
\* first await: the entries the checks refuse are passed over.
SeedCount ==
    /\ seed.pc = "count"
    /\ LET rest == SkipInvalid(seed.categories, seed.cafes_data)
       IN  seed' = [seed EXCEPT !.pc = EntryPc(rest), !.cafes_data = rest]
    /\ UNCHANGED <<categories, cafes, assocs, deleted, sessions, writer>>

\* select(Cafe).filter_by(title, city) for the entry, after the autoflush.
\* For a cafe found the description and the image_url of the entry are set;
\* else a Cafe is added.
SeedSelectCafe ==
    /\ seed.pc = "cafe"
    /\ seed.pending = NoPending \/ CanWrite(Script)
    /\ LET cafe_data == Head(seed.cafes_data)
           flush     == SeedFlush(SeedView, seed.pending)
           existing  == {c \in flush.tables.cafes :
                            /\ c.title = cafe_data.title
                            /\ c.city = cafe_data.city}
           changed   == {c \in existing :
                            \/ c.description # cafe_data.description
                            \/ c.image_url # cafe_data.image_url}
       IN  IF flush.error # "" THEN SeedRaise(flush.error)
           ELSE IF existing # {}
           THEN SeedGoto("assocs", seed.cafes_data, existing,
                         [cafe  |-> {[loaded |-> c, data |-> cafe_data] :
                                        c \in changed},
                          flips |-> {}, adds |-> {}],
                         seed.pending # NoPending, flush.tables)
           ELSE SeedGoto("flush_cafe", seed.cafes_data, {}, NoPending,
                         seed.pending # NoPending, flush.tables)
    /\ UNCHANGED <<categories, cafes, assocs, deleted, sessions>>

\* select(CafeCategory).filter_by(cafe_id=existing_cafe.id), after the
\* autoflush (the UPDATE of the cafe), and the diff: is_best is set on the
\* rows of a desired category where it differs, a row is added for each
\* desired category without one; session.delete(...) without await removes
\* nothing.  Then the loop up to its next await.
SeedSelectAssocs ==
    /\ seed.pc = "assocs"
    /\ seed.pending = NoPending \/ CanWrite(Script)
    /\ LET cafe_data   == Head(seed.cafes_data)
           flush       == SeedFlush(SeedView, seed.pending)
           cafe_id     == (CHOOSE c \in seed.existing_cafe : TRUE).id
           desired     == desired_category_ids(seed.categories, cafe_data)
           best_for_id == SeedCategoryId(seed.categories, cafe_data.best_for)
           existing_assocs == {a \in flush.tables.assocs :
                                  a.cafe_id = cafe_id}
           current_assoc_ids == {a.category_id : a \in existing_assocs}
           rest == SkipInvalid(seed.categories, Tail(seed.cafes_data))
       IN  IF flush.error # "" THEN SeedRaise(flush.error)
           ELSE SeedGoto(EntryPc(rest), rest, {},
                         [cafe  |-> {},
                          flips |-> {[a EXCEPT !.is_best = ~a.is_best] :
                                        a \in {x \in existing_assocs :
                                                  /\ x.category_id \in desired
                                                  /\ x.is_best #
                                                     (x.category_id =
                                                      best_for_id)}},
                          adds  |-> {[cafe_id |-> cafe_id,
                                      category_id |-> cat_id,
                                      is_best |-> (cat_id = best_for_id)] :
                                        cat_id \in desired \ current_assoc_ids}],
                         seed.pending # NoPending, flush.tables)
    /\ UNCHANGED <<categories, cafes, assocs, deleted, sessions>>

\* session.flush() for the id of the new cafe: the INSERT of the cafe row.
\* Then the CafeCategory rows of the entry are added, and the loop goes up
\* to its next await.
SeedFlushCafe ==
    /\ seed.pc = "flush_cafe"
    /\ CanWrite(Script)
    /\ LET cafe_data == Head(seed.cafes_data)
           id        == NextCafeId(SeedView.cafes)
           written   == SeedView.cafes \cup {CafeRow(id, cafe_data)}
           rest      == SkipInvalid(seed.categories, Tail(seed.cafes_data))
       IN  IF ~uq_cafe_title_city(written)
           THEN SeedRaise("uq_cafe_title_city")
           ELSE SeedGoto(EntryPc(rest), rest, {},
                         [cafe |-> {}, flips |-> {},
                          adds |-> NewCafeAssocs(seed.categories, id,
                                                 cafe_data)],
                         TRUE,
                         SeedWork(SeedView.categories, written,
                                  SeedView.assocs))
    /\ UNCHANGED <<categories, cafes, assocs, deleted, sessions>>

\* session.flush() after the loop.
SeedFinalFlush ==
    /\ seed.pc = "flush"
    /\ seed.pending = NoPending \/ CanWrite(Script)
    /\ LET flush == SeedFlush(SeedView, seed.pending)
       IN  IF flush.error # "" THEN SeedRaise(flush.error)
           ELSE SeedGoto("commit", <<>>, {}, NoPending,
                         seed.pending # NoPending, flush.tables)
    /\ UNCHANGED <<categories, cafes, assocs, deleted, sessions>>

\* except IntegrityError: session.rollback(), and the message.
SeedRollback ==
    /\ seed.pc = "rollback"
    /\ seed' = SeedDone(SeedConflict, seed.error)
    /\ UNCHANGED <<categories, cafes, assocs, deleted, sessions, writer>>

\* The busy timeout runs out in the script: at a flush with something to
\* write while a request holds the write lock, at a COMMIT while a request
\* is reading.  The OperationalError is not an IntegrityError: the script
\* ends with it, its session closed and what it wrote rolled back.
SeedBusy ==
    /\ \/ /\ \/ seed.pc = "insert" /\ seed.names # <<>>
             \/ seed.pc \in {"cafe", "assocs", "flush"}
                /\ seed.pending # NoPending
             \/ seed.pc = "flush_cafe"
          /\ ~CanWrite(Script)
       \/ /\ seed.pc \in {"commit_categories", "commit"}
          /\ writer = Script
          /\ \E q \in Procs : Reading(q)
    /\ writer' = IF writer = Script THEN 0 ELSE writer
    /\ seed' = SeedDone(Traceback, Locked)
    /\ UNCHANGED <<categories, cafes, assocs, deleted, sessions>>

\* The steps of the script.
SeedStep ==
    \/ SeedCategories
    \/ SeedInsertCategories
    \/ SeedCommit
    \/ SeedReload
    \/ SeedCount
    \/ SeedSelectCafe
    \/ SeedSelectAssocs
    \/ SeedFlushCafe
    \/ SeedFinalFlush
    \/ SeedRollback
    \/ SeedBusy

\* The cafes_data of the runs of SeedSpec: one entry for a (title, city),
\* with one category, with other columns and another category, with two
\* categories, with best_for in also_good_for; two entries for two cities,
\* and two for one city.
SeedCafesData ==
    {d \in CafesData :
        \/ /\ Len(d) = 1
           /\ d[1].city = <<"P">>
           /\ <<d[1].description, d[1].best_for, d[1].also_good_for>> \in
                  {<<"cozy", "wifi", <<>>>>, <<"loud", "quiet", <<>>>>,
                   <<"cozy", "wifi", <<"quiet">>>>,
                   <<"cozy", "quiet", <<"quiet">>>>}
        \/ /\ Len(d) = 2
           /\ d[1].city = <<"P">> /\ d[1].description = "cozy"
           /\ d[1].also_good_for = <<>>
           /\ d[2].description = "cozy"
           /\ d[2].also_good_for = IF d[2].city = <<"P">> THEN <<"quiet">>
                                   ELSE <<>>}

\* The ids the delete_cafe requests of SeedSpec name.
SeedIds == {1, 2}

\* create_tables on a new database: the tables are empty.
SeedInit ==
    /\ categories = {}
    /\ cafes = {}
    /\ assocs = {}
    /\ seed = SeedState("idle", 0, <<>>, <<>>)
    /\ deleted = {}
    /\ sessions = [p \in Procs |-> Idle]
    /\ writer = 0

\* The runs of the script, and delete_cafe requests that overlap them.
SeedNext ==
    \/ \E categories_data \in CategoriesData :
           \E cafes_data \in SeedCafesData :
               SeedBegin(categories_data, cafes_data)
    \/ SeedStep
    \/ \E p \in Procs :
           \/ \E cafe_id \in SeedIds : Begin(p, "delete", cafe_id, <<>>)
           \/ SelectCafe(p)
           \/ WriteCafe(p)
           \/ Busy(p)
           \/ DeleteRow(p)
           \/ Commit(p)

SeedSpec == SeedInit /\ [][SeedNext]_vars


(* ------------------- overlapping requests, one each ------------------- *)
\* The bodies of the requests: one (title, city) pair, so that two
\* create_cafe requests race for it; one body that commits alone, one whose
\* columns differ, one whose association rows break uq_cafe_category after
\* the cafe row is written.
ConcBodies ==
    {c \in CafeCreate :
        /\ c.city = <<"P">>
        /\ <<c.description, c.best_for, c.also_good_for>> \in
               {<<"cozy", "wifi", <<>>>>, <<"loud", "wifi", <<"quiet">>>>,
                <<"cozy", "quiet", <<"quiet">>>>}}

\* The cafe ids the update_cafe and delete_cafe requests name.
ConcIds == {1, 2, 3}

\* The stores the requests start on: none, one or two cafes with other
\* titles, or one cafe that holds the pair.
ConcStores ==
    {[cafes |-> {SeededCafe(i) : i \in 1..n},
      assocs |-> {SeededAssoc(i) : i \in 1..n}] : n \in 0..2} \cup
    {[cafes |-> {[id |-> 1, title |-> "Aroma", city |-> <<"P">>,
                  description |-> "cozy", image_url |-> NoUrl]},
      assocs |-> {[cafe_id |-> 1, category_id |-> 1, is_best |-> TRUE]}]}

ConcInit ==
    \E store \in ConcStores :
        /\ categories = {[id |-> 1, name |-> "wifi"],
                         [id |-> 2, name |-> "quiet"]}
        /\ cafes = store.cafes
        /\ assocs = store.assocs
        /\ seed = SeedState("idle", 0, <<>>, <<>>)
        /\ deleted = {}
        /\ sessions = [p \in Procs |-> Idle]
        /\ writer = 0

ConcNext ==
    \E p \in Procs :
        \/ \E cafe \in ConcBodies : Begin(p, "create", 0, cafe)
        \/ \E cafe_id \in ConcIds : \E cafe \in ConcBodies :
               Begin(p, "update", cafe_id, cafe)
        \/ \E cafe_id \in ConcIds : Begin(p, "delete", cafe_id, <<>>)
        \/ WriteStep(p)

ConcSpec == ConcInit /\ [][ConcNext]_vars

(* ------------------------------- claims ------------------------------- *)
\* A claim about a request is stated of the step in which the request ends
\* (or commits): of the request the session holds before the step and of
\* the response and the tables after it.

\* The request of p ends in this step.
Ends(p) ==
    /\ sessions[p].pc \notin {"idle", "done"}
    /\ sessions'[p].pc = "done"

\* Some cafe of the store has the (title, city) of the request.
Duplicates(cafe) ==
    \E c \in cafes : c.title = cafe.title /\ c.city = cafe.city

\* All the category names of the request are in the Category Store.
NamesExist(cafe) ==
    \A n \in {cafe.best_for} \cup Range(cafe.also_good_for) :
        \E cat \in categories : cat.name = n

\* No two cafe rows share a (title, city).
TitleCityUnique ==
    \A a \in cafes : \A b \in cafes :
        (a.title = b.title /\ a.city = b.city) => a.id = b.id

\* The create_cafe request of p ends, having committed nothing, while a
\* cafe of the store has its (title, city).
EndsAsDuplicate(p) ==
    /\ Ends(p)
    /\ sessions[p].op = "create"
    /\ ~sessions[p].committed
    /\ Duplicates(sessions[p].cafe)

\* C1, as stated: every create_cafe request whose (title, city) is that of
\* a cafe in the store fails with the conflict error and leaves the cafe
\* rows and the association rows as they were, and no two cafe rows share
\* a (title, city).
C1_DuplicateAlwaysConflict ==
    [][/\ \A p \in Procs :
              EndsAsDuplicate(p) =>
                  /\ sessions'[p].resp.status = 400
                  /\ sessions'[p].resp.detail = Conflict
                  /\ cafes' = cafes /\ assocs' = assocs
       /\ TitleCityUnique']_vars

\* C1, amended: a create_cafe request whose (title, city) is that of a cafe
\* in the store fails and leaves the cafe rows and the association rows as
\* they were; the error is the category error, raised first, when one of
\* its category names does not exist, and else the conflict error, or the
\* server error of a database that stayed locked by another request.  No
\* two cafe rows share a (title, city).
C1_DuplicateRejected ==
    [][/\ \A p \in Procs :
              EndsAsDuplicate(p) =>
                  /\ cafes' = cafes /\ assocs' = assocs
                  /\ IF ~NamesExist(sessions[p].cafe)
                     THEN /\ sessions'[p].resp.status = 400
                          /\ sessions'[p].resp.detail = NoCategory
                     ELSE \/ /\ sessions'[p].resp.status = 400
                             /\ sessions'[p].resp.detail = Conflict
                          \/ /\ sessions'[p].resp.status = 500
                             /\ sessions'[p].resp.error = Locked
       /\ TitleCityUnique']_vars

\* A create_cafe was refused for its (title, city), which a cafe of the
\* store holds.
C1_Witness ==
    \E p \in Procs :
        /\ sessions[p].pc = "done"
        /\ sessions[p].resp.op = "create"
        /\ sessions[p].resp.detail = Conflict
        /\ sessions[p].resp.error = "uq_cafe_title_city"
        /\ cafes # {}

\* C2: every cafe row has exactly one association row with is_best, the
\* category of that row is in no other association row of the cafe, and no
\* two association rows share (cafe_id, category_id).
C2_ExactlyOneBest ==
    /\ \A c \in cafes :
           /\ Cardinality({a \in assocs : a.cafe_id = c.id /\ a.is_best}) = 1
           /\ \A a \in assocs : \A b \in assocs :
                  (a.cafe_id = c.id /\ b.cafe_id = c.id
                   /\ a.is_best /\ ~b.is_best)
                  => a.category_id # b.category_id
    /\ \A a \in assocs : \A b \in assocs :
           (a.cafe_id = b.cafe_id /\ a.category_id = b.category_id) => a = b

\* C3: a create_cafe or update_cafe request (of an existing cafe) whose
\* best_for is also in its also_good_for, all names existing, is refused
\* with an error that is not the title-and-city conflict, and writes
\* nothing.  (A request that the locked database ended is left aside.)
C3_DuplicateCategoryError ==
    [][\A p \in Procs :
           (/\ Ends(p)
            /\ sessions[p].op \in {"create", "update"}
            /\ sessions[p].pc # "refresh"
            /\ sessions[p].op = "update" => sessions[p].db_cafe # {}
            /\ sessions'[p].resp.error # Locked)
           => LET cafe == sessions[p].cafe
              IN  (cafe.best_for \in Range(cafe.also_good_for)
                   /\ NamesExist(cafe))
                  => /\ sessions'[p].resp.status = 400
                     /\ sessions'[p].resp.detail # Conflict
                     /\ cafes' = cafes /\ assocs' = assocs]_vars

\* The transaction of the update_cafe(cafe_id, request) of p commits in
\* this step, and with it the association rows of cafe_id are one is_best
\* row for request.best_for and one row without is_best for each name of
\* request.also_good_for, and the rows of every other cafe are as they
\* were.
CommitsTheRowsOfTheRequest(p) ==
    LET cafe_id == sessions[p].cafe_id
        cafe    == sessions[p].cafe
    IN  /\ sessions[p].op = "update"
        /\ ~sessions[p].committed
        /\ sessions'[p].committed
        /\ {a \in assocs' : a.cafe_id = cafe_id} =
               {[cafe_id |-> cafe_id,
                 category_id |-> CategoryId(cafe.best_for),
                 is_best |-> TRUE]} \cup
               {[cafe_id |-> cafe_id, category_id |-> CategoryId(n),
                 is_best |-> FALSE] : n \in Range(cafe.also_good_for)}
        /\ {a \in assocs' : a.cafe_id # cafe_id} =
               {a \in assocs : a.cafe_id # cafe_id}

\* C4: an update_cafe(cafe_id, request) whose transaction commits replaces
\* the association rows of cafe_id by those of the request, leaving the
\* rows of the other cafes as they were, and is a successful request: it
\* is answered 200.
C4_UpdateReplacesAssociations ==
    [][\A p \in Procs :
           /\ (/\ sessions[p].op = "update"
               /\ ~sessions[p].committed
               /\ sessions'[p].committed)
              => CommitsTheRowsOfTheRequest(p)
           /\ (/\ Ends(p)
               /\ sessions[p].op = "update"
               /\ sessions[p].committed)
              => sessions'[p].resp.status = 200]_vars

\* C5: when a delete_cafe(cafe_id) commits the store has no cafe row and no
\* association row of that id, and every update_cafe, delete_cafe or
\* recommendation request for the id that arrives later reports not-found.
C5_DeletedStaysNotFound ==
    [][\A p \in Procs :
           /\ (/\ sessions[p].op = "delete"
               /\ ~sessions[p].committed
               /\ sessions'[p].committed)
              => /\ \A c \in cafes' : c.id # sessions[p].cafe_id
                 /\ \A a \in assocs' : a.cafe_id # sessions[p].cafe_id
           /\ (/\ Ends(p)
               /\ sessions[p].op \in {"update", "delete", "recommend"}
               /\ sessions[p].late)
              => sessions'[p].resp.status = 404]_vars

\* C6: a recommendation request for an existing cafe returns a list: the
\* empty one when the store holds one cafe, and with two or more a list of
\* at most 3 cafes, none of them the target, whatever the similarity
\* scores.
C6_RecommendExcludesTarget ==
    [][\A p \in Procs :
           (/\ Ends(p)
            /\ sessions[p].op = "recommend"
            /\ \E c \in cafes : c.id = sessions[p].cafe_id)
           => LET r == sessions'[p].resp
              IN  /\ r.status = 200
                  /\ Cardinality(cafes) = 1 => r.body = <<>>
                  /\ Cardinality(cafes) >= 2 =>
                         /\ Len(r.body) <= 3
                         /\ \A i \in 1..Len(r.body) :
                                r.body[i] # r.cafe_id]_vars

\* C7: a get_cafes query fails with the client error listing exactly the
\* supplied names that are not in the Category Store, and returns no cafe,
\* when there is such a name; when there is none the error is not raised.
\* (A best_for that is None or the empty string is not supplied.)
C7_MissingNamesListed ==
    [][\A p \in Procs :
           (Ends(p) /\ sessions[p].op = "get") =>
               LET query    == sessions[p].cafe
                   supplied == {n \in FilterNames \cup {""} :
                                   \/ n = query.best_for /\ n # ""
                                   \/ \E i \in 1..Len(query.also_good_for) :
                                          query.also_good_for[i] = n}
                   absent   == {n \in supplied :
                                   \A cat \in categories : cat.name # n}
                   r        == sessions'[p].resp
               IN  IF absent # {}
                   THEN /\ r.status = 400 /\ r.detail = NoCategories
                        /\ r.names = absent
                        /\ r.found = {}
                   ELSE r.status = 200 /\ r.detail # NoCategories]_vars

\* The query with best_for "void" and also_good_for "ghost", "wifi" (the
\* one query of Queries that names "void") was refused on a store with a
\* cafe, and the names listed are "void" and "ghost", not "wifi", which is
\* in the Category Store.
C7_Witness ==
    \E p \in Procs :
        /\ sessions[p].pc = "done"
        /\ sessions[p].resp.op = "get" /\ sessions[p].resp.status = 400
        /\ sessions[p].resp.detail = NoCategories
        /\ sessions[p].resp.names = {"ghost", "void"}
        /\ \E cat \in categories : cat.name = "wifi"
        /\ cafes # {}

\* city occurs in s as a substring, case ignored.
HasSubstring(s, city) ==
    \E k \in 0..(Len(s) - Len(city)) :
        \A i \in 1..Len(city) : LowerStr(s)[k + i] = LowerStr(city)[i]

\* The ids of the cafes that match the city substring and have an
\* association row with a category named in ns and the is_best given.
CafesWith(city, ns, is_best) ==
    {c.id : c \in
        {x \in cafes :
            /\ city = <<>> \/ HasSubstring(x.city, city)
            /\ \E a \in assocs : \E cat \in categories :
                   /\ a.cafe_id = x.id /\ a.category_id = cat.id
                   /\ cat.name \in ns /\ a.is_best = is_best}}

\* C8: with category names that all exist, a query with best_for alone
\* returns the cafes (in the city, if given) with an is_best row of that
\* category, and a query with also_good_for alone returns the cafes with a
\* row without is_best of one of those categories.
C8_FilterByCategory ==
    [][\A p \in Procs :
           (/\ Ends(p)
            /\ sessions[p].op = "get"
            /\ sessions'[p].resp.status = 200)
           => LET query == sessions[p].cafe
                  known == {cat.name : cat \in categories}
              IN  /\ (query.best_for \in known /\ query.also_good_for = <<>>)
                     => sessions'[p].resp.found =
                            CafesWith(query.city, {query.best_for}, TRUE)
                  /\ (/\ query.best_for = ""
                      /\ query.also_good_for # <<>>
                      /\ Range(query.also_good_for) \subseteq known)
                     => sessions'[p].resp.found =
                            CafesWith(query.city, Range(query.also_good_for),
                                      FALSE)]_vars

\* The create_cafe or update_cafe request of p ends in this step in one of
\* the errors of C9: a category name that does not exist, a cafe id that
\* does not exist, or the IntegrityError of a uniqueness constraint.
EndsInListedError(p) ==
    /\ Ends(p)
    /\ sessions[p].op \in {"create", "update"}
    /\ sessions'[p].resp.detail \in {NoCategory, NotFound, Conflict}

\* C9: a create_cafe or update_cafe request that ends in one of these
\* errors has changed nothing: its transaction has not committed, the step
\* in which it ends leaves the cafe rows and the association rows as they
\* were, and the rows change in no step but the COMMIT of a request (what a
\* request wrote before its flush failed is in the tables at no time).
C9_FailedWriteChangesNothing ==
    [][/\ \A p \in Procs :
              EndsInListedError(p) =>
                  /\ ~sessions'[p].committed
                  /\ cafes' = cafes /\ assocs' = assocs
       /\ (cafes' # cafes \/ assocs' # assocs) =>
              \E p \in Procs :
                  ~sessions[p].committed /\ sessions'[p].committed]_vars

\* An update_cafe with description "cozy", best_for "quiet" and
\* also_good_for "quiet" was refused on uq_cafe_category, after its UPDATE
\* of the cafe row and its DELETE of the association rows, and the cafe
\* has the description "loud" and the rows for "wifi" (is_best) and
\* "quiet" it had.
C9_Witness ==
    \E p \in Procs :
        /\ sessions[p].pc = "done"
        /\ sessions[p].resp.op = "update" /\ sessions[p].resp.status = 400
        /\ sessions[p].resp.error = "uq_cafe_category"
        /\ \E c \in cafes :
               /\ c.id = sessions[p].resp.cafe_id
               /\ c.description = "loud"
               /\ {<<a.category_id, a.is_best>> :
                       a \in {x \in assocs : x.cafe_id = c.id}} =
                      {<<CategoryId("wifi"), TRUE>>,
                       <<CategoryId("quiet"), FALSE>>}

\* C10: for two or more cafes the recommendation request for an existing
\* cafe returns a list in order of non-increasing similarity, no cafe left
\* out (the target aside) has a higher score than one returned, and of two
\* returned cafes with equal scores the one earlier in the corpus comes
\* first.
C10_RankedBySimilarity ==
    [][\A p \in Procs :
           (/\ Ends(p)
            /\ sessions[p].op = "recommend"
            /\ \E c \in cafes : c.id = sessions[p].cafe_id
            /\ Cardinality(cafes) >= 2)
           => LET r == sessions'[p].resp
              IN  /\ r.status = 200
                  /\ \A sim \in RowsOf(r.cafe_id) : \A perm \in Argsort(sim) :
                         r.body = Ranked(perm) =>
                             LET score == [id \in Range(Corpus) |->
                                              sim[CafeIdx(Corpus, id)]]
                                 body  == r.body
                             IN  /\ \A i \in 1..(Len(body) - 1) :
                                        /\ score[body[i]] >= score[body[i + 1]]
                                        /\ score[body[i]] = score[body[i + 1]]
                                           => body[i] < body[i + 1]
                                 /\ \A id \in Range(Corpus) \ Range(body) :
                                        id # r.cafe_id =>
                                            \A i \in 1..Len(body) :
                                                score[id] <= score[body[i]]]_vars

\* The Category Store the requests run over.
CategoryStore ==
    {[id |-> 1, name |-> "wifi"], [id |-> 2, name |-> "quiet"]}

\* C12: in every state reached by create_cafe, update_cafe and delete_cafe
\* requests, every association row references a cafe row of the store and
\* a category of the Category Store, and the Category Store is as it was
\* at the start.
C12_NoOrphanAssociation ==
    /\ \A a \in assocs :
           /\ \E c \in cafes : c.id = a.cafe_id
           /\ \E cat \in categories : cat.id = a.category_id
    /\ categories = CategoryStore

\* The (category_id, is_best) pairs of the association rows of a cafe.
AssocPairs(as, cafe_id) ==
    {<<a.category_id, a.is_best>> : a \in {x \in as : x.cafe_id = cafe_id}}

\* The association rows update_cafe commits for the cafe and the entry: the
\* DELETE of the rows of the cafe, then the INSERT of the rows of the entry.
UpdatedAssocs(as, cafe_id, e) ==
    LET flushed == FlushAssocs(DeleteAssocsOf(as, cafe_id),
                               NewAssocRows(cafe_id, e))
    IN  IF flushed.ok THEN flushed.rows ELSE as

\* C13: for a cafe of the store and a seed entry with its (title, city)
\* that seed_database lets through, the pass of seed_database over the
\* entry leaves the cafe with the (category_id, is_best) pairs that
\* update_cafe leaves for the same entry; and a second run of
\* seed_database on the result of a run changes no cafe row and no
\* association row.
C13_SeedPatchAsUpdate ==
    /\ \A c \in cafes : \A e \in CafeCreate :
           (e.title = c.title /\ e.city = c.city /\ SeedValid(categories, e))
           => AssocPairs(seed_cafe(categories, cafes, assocs, e).assocs, c.id)
              = AssocPairs(UpdatedAssocs(assocs, c.id, e), c.id)
    /\ \A categories_data \in CategoriesData : \A cafes_data \in CafesData :
           LET r == seed_database(categories, cafes, assocs, categories_data,
                                  cafes_data)
               q == seed_database(r.categories, r.cafes, r.assocs,
                                  categories_data, cafes_data)
           IN  q.cafes = r.cafes /\ q.assocs = r.assocs

\* The requests that have committed, among the sessions ss.
Commits(ss) == {p \in Procs : ss[p].committed}

\* The request of p ends in this step without a commit.
Loses(p) == Ends(p) /\ ~sessions'[p].committed

\* The requests of the sessions ss are create_cafe and update_cafe requests.
WritesOnly(ss) == \A p \in Procs : ss[p].op # "delete"

\* C11, as stated: under every interleaving of the steps of the concurrent
\* create_cafe and update_cafe requests for one (title, city), of two
\* requests that were in flight at the same time at most one commits, no
\* two cafe rows share a (title, city), and a request that does not commit
\* leaves the cafe rows and the association rows as they were.
C11_AtMostOneCommits ==
    [][WritesOnly(sessions') =>
       /\ \A p \in Commits(sessions') : \A q \in Commits(sessions') :
              q \in sessions'[p].peers => p = q
       /\ TitleCityUnique'
       /\ \A p \in Procs : Loses(p) => (cafes' = cafes /\ assocs' = assocs)]_vars

\* C11, amended: under every interleaving, all the requests that commit
\* write one and the same cafe row, at most one of them a create_cafe (the
\* others are update_cafe requests for that cafe, each replacing what the
\* one before wrote); no two cafe rows share a (title, city); a request that
\* does not commit leaves the cafe rows and the association rows as they
\* were.
C11_OneRowGetsThePair ==
    [][WritesOnly(sessions') =>
       /\ \A p \in Commits(sessions') : \A q \in Commits(sessions') :
              /\ sessions'[p].cafe_id = sessions'[q].cafe_id
              /\ (sessions'[p].op = "create" /\ sessions'[q].op = "create")
                 => p = q
       /\ TitleCityUnique'
       /\ \A p \in Procs : Loses(p) => (cafes' = cafes /\ assocs' = assocs)]_vars

\* On a store of two cafes a create_cafe committed, and another
\* create_cafe for the same pair, in flight at the same time, was rolled
\* back on the conflict.
C11_Witness ==
    \E p \in Procs : \E q \in Procs :
        /\ sessions[p].op = "create" /\ sessions[p].pc = "done"
        /\ sessions[p].committed
        /\ sessions[q].op = "create" /\ sessions[q].pc = "done"
        /\ sessions[q].resp.status = 400
        /\ sessions[q].resp.detail = Conflict
        /\ q \in sessions[p].peers
        /\ Cardinality(cafes) = 3

====
